---- MODULE Spec2Model ----
(***************************************************************************)
(* The installation wizard of install.js: the manifest builder, the local  *)
(* callback listener, the orchestration in runInstallation and the writer  *)
(* of the .env file.                                                       *)
(*                                                                         *)
(* Text (a JavaScript string) is a sequence of tokens.  A token is either  *)
(* one reserved character (":", "/", "{", the quote, the space, the line   *)
(* feed, ...) or a word made of characters that encodeURIComponent leaves  *)
(* alone, so that joining, JSON serialisation and percent-encoding act on  *)
(* tokens exactly as they act on the characters.                           *)
(***************************************************************************)
EXTENDS Integers, Sequences, FiniteSets

\* Bounds of the model.
MaxRequests == 3   \* HTTP requests the environment sends to the listener
MaxWrites == 3     \* writes of the writer harness (WriterSpec)

---------------------------------------------------------------------------
(* JavaScript values held by config and by the request query.              *)

Undefined == [t |-> "undefined", v |-> <<>>]

Str(s) == [t |-> "string", v |-> s]

\* ToBoolean: undefined and the empty string are falsy.
Truthy(x) == x.t = "string" /\ x.v # <<>>

\* a || b
Or(a, b) == IF Truthy(a) THEN a ELSE b

\* `${x}` : the string conversion of a template literal.
TemplateString(x) == IF x.t = "undefined" THEN <<"undefined">> ELSE x.v

\* An object is the sequence of its own properties in insertion order.
Get(obj, k) ==
  IF \E i \in DOMAIN obj : obj[i].key = k
  THEN obj[CHOOSE i \in DOMAIN obj : obj[i].key = k].value
  ELSE Undefined

\* obj[k] = x : an existing property keeps its place, a new one goes last.
Set(obj, k, x) ==
  IF \E i \in DOMAIN obj : obj[i].key = k
  THEN [i \in DOMAIN obj |-> IF obj[i].key = k THEN [key |-> k, value |-> x] ELSE obj[i]]
  ELSE Append(obj, [key |-> k, value |-> x])

Keys(obj) == {obj[i].key : i \in DOMAIN obj}

RECURSIVE Join(_, _)
\* Array.prototype.join on an array of texts.
Join(parts, sep) ==
  IF parts = <<>> THEN <<>>
  ELSE IF Len(parts) = 1 THEN parts[1]
  ELSE parts[1] \o sep \o Join(Tail(parts), sep)

---------------------------------------------------------------------------
(* JSON.stringify(value, null, indent) on the shapes the manifest uses.    *)

Spaces(n) == [i \in 1..n |-> " "]

JsonBreak(depth, indent) == IF indent = 0 THEN <<>> ELSE <<"\n">> \o Spaces(depth * indent)

JsonString(s) == <<"\"">> \o s \o <<"\"">>

JsonBool(b) == IF b THEN <<"true">> ELSE <<"false">>

\* A string value; an undefined property is left out (the empty text).
JsonValue(x) == IF x.t = "undefined" THEN <<>> ELSE JsonString(x.v)

JsonObject(members, depth, indent) ==
  LET present == SelectSeq(members, LAMBDA m : m.text # <<>>)
      items == [i \in DOMAIN present |->
                  JsonString(<<present[i].key>>) \o <<":">>
                  \o (IF indent = 0 THEN <<>> ELSE <<" ">>) \o present[i].text]
  IN IF present = <<>> THEN <<"{", "}">>
     ELSE <<"{">> \o JsonBreak(depth + 1, indent)
          \o Join(items, <<",">> \o JsonBreak(depth + 1, indent))
          \o JsonBreak(depth, indent) \o <<"}">>

JsonArray(texts, depth, indent) ==
  IF texts = <<>> THEN <<"[", "]">>
  ELSE <<"[">> \o JsonBreak(depth + 1, indent)
       \o Join(texts, <<",">> \o JsonBreak(depth + 1, indent))
       \o JsonBreak(depth, indent) \o <<"]">>

Member(k, text) == [key |-> k, text |-> text]

JSON_stringify(m, indent) ==
  JsonObject(<<
    Member("name", JsonString(m.name)),
    Member("url", JsonValue(m.url)),
    Member("hook_attributes", JsonObject(<<
        Member("url", JsonValue(m.hook_attributes.url)),
        Member("active", JsonBool(m.hook_attributes.active)),
        Member("secret", JsonString(m.hook_attributes.secret)) >>, 1, indent)),
    Member("redirect_url", JsonValue(m.redirect_url)),
    Member("public", JsonBool(m.public)),
    Member("default_permissions", JsonObject(
        [i \in DOMAIN m.default_permissions |->
           Member(m.default_permissions[i].key,
                  JsonString(m.default_permissions[i].value))], 1, indent)),
    Member("default_events", JsonArray(
        [i \in DOMAIN m.default_events |-> JsonString(m.default_events[i])], 1, indent)),
    Member("description", JsonString(m.description)) >>, 0, indent)

\* The percent-encoding of one token: a reserved character is escaped, a
\* word of unreserved characters (letters, digits, - _ . ! ~ * ' ( )) is kept.
PercentEncode(tok) ==
  CASE tok = "{"  -> "%7B"
    [] tok = "}"  -> "%7D"
    [] tok = "["  -> "%5B"
    [] tok = "]"  -> "%5D"
    [] tok = "\"" -> "%22"
    [] tok = ":"  -> "%3A"
    [] tok = ","  -> "%2C"
    [] tok = "/"  -> "%2F"
    [] tok = " "  -> "%20"
    [] tok = "\n" -> "%0A"
    [] tok = "?"  -> "%3F"
    [] tok = "="  -> "%3D"
    [] OTHER      -> tok

encodeURIComponent(text) == [i \in DOMAIN text |-> PercentEncode(text[i])]

---------------------------------------------------------------------------
(* Constants of install.js.                                                *)

APP_NAME_PREFIX == <<"AI-Coding-Assistant">>

DEFAULT_PORT == <<"3000">>

ENV_FILE_PATH == ".env"

MANIFEST_FILE_PATH == "github-app-manifest.json"

DOCKER_COMPOSE_PATH == "docker-compose.yml"

DOCKERFILE_PATH == "Dockerfile"

README_PATH == "INSTALL.md"

Paths == {ENV_FILE_PATH, MANIFEST_FILE_PATH, DOCKER_COMPOSE_PATH, DOCKERFILE_PATH, README_PATH}

DefaultAppUrl ==
  <<"https", ":", "/", "/", "github.com", "/", "your-username", "/", "ai-coding-assistant">>

Localhost == <<"http", ":", "/", "/", "localhost">>

ManualAppSettings == Str(<<"GET_FROM_GITHUB_APP_SETTINGS">>)

ManualPrivateKey == Str(<<"DOWNLOAD_FROM_GITHUB_APP_SETTINGS">>)

ManualClaudeKey == Str(<<"ENTER_YOUR_CLAUDE_API_KEY_HERE">>)

\* The route the listener serves.
CallbackRoute == <<"/", "github", "/", "callback">>

WebhookRoute == <<"/", "api", "/", "webhook">>

---------------------------------------------------------------------------
(* The files of the working directory.                                     *)

NoFile == [exists |-> FALSE, content |-> <<>>]

File(text) == [exists |-> TRUE, content |-> text]

\* fs.writeFileSync(path, text): the whole file is replaced.
writeFileSync(fsys, path, text) == [fsys EXCEPT ![path] = File(text)]

---------------------------------------------------------------------------
(* The pure functions of install.js.                                       *)

\* crypto.randomBytes(n).toString('hex'): the values the generator may give.
randomHex(n) ==
  IF n = 16
  THEN {<<"5f2a9c0e17b3d4486a1fe2c3907bd5a1">>, <<"c01dfeed9a8b7c6d5e4f30211203a4b5">>}
  ELSE {<<"0a1b2c3d">>}

generateRandomSecret(length) == randomHex(length)

\* The object literal `manifest` of generateGitHubAppManifest.
manifestLiteral(cfg, secret, nameHex) ==
  [ name |-> APP_NAME_PREFIX \o <<"-">>
             \o TemplateString(Or(Get(cfg, "appNameSuffix"), Str(nameHex))),
    url |-> Or(Get(cfg, "appUrl"), Str(DefaultAppUrl)),
    hook_attributes |->
      [ url |-> Get(cfg, "webhookUrl"), active |-> TRUE, secret |-> secret ],
    redirect_url |-> Or(Get(cfg, "redirectUrl"), Get(cfg, "webhookUrl")),
    public |-> FALSE,
    default_permissions |->
      << [key |-> "issues", value |-> <<"write">>],
         [key |-> "pull_requests", value |-> <<"write">>],
         [key |-> "contents", value |-> <<"write">>],
         [key |-> "metadata", value |-> <<"read">>] >>,
    default_events |->
      << <<"issues">>, <<"issue_comment">>, <<"pull_request">>,
         <<"pull_request_review">>, <<"pull_request_review_comment">> >>,
    description |->
      <<"AI-powered", " ", "assistant", " ", "that", " ", "automates", " ",
        "software", " ", "development", " ", "workflow", " ", "from", " ",
        "GitHub", " ", "issue", " ", "to", " ", "implementation.">> ]

\* Mutant: the secret returned is a second draw, not the one embedded.
generateGitHubAppManifest_secondDraw(cfg, secret, nameHex) ==
  [ manifest |-> manifestLiteral(cfg, secret, nameHex),
    webhookSecret |-> CHOOSE s \in generateRandomSecret(16) : s # secret ]

\* generateGitHubAppManifest(config), given the two random draws it makes:
\* `secret` is generateRandomSecret(16), nameHex is randomBytes(4) in hex.
generateGitHubAppManifest(cfg, secret, nameHex) ==
  [ manifest |-> manifestLiteral(cfg, secret, nameHex), webhookSecret |-> secret ]

\* The text saveEnvironmentVariables writes: KEY=value lines joined by "\n".
envContent(cfg) ==
  Join([i \in DOMAIN cfg |-> <<cfg[i].key, "=">> \o TemplateString(cfg[i].value)], <<"\n">>)

getWebhookUrl(cfg) ==
  LET baseUrl == Or(Get(cfg, "baseUrl"), Or(Get(cfg, "host"), Str(Localhost)))
      port == Or(Get(cfg, "port"), Str(DEFAULT_PORT))
  IN Str(TemplateString(baseUrl) \o <<":">> \o TemplateString(port) \o WebhookRoute)

\* The registration URL opened in the browser.
githubAppUrl(m) ==
  <<"https", ":", "/", "/", "github.com", "/", "settings", "/", "apps", "/", "new",
    "?", "manifest", "=">> \o encodeURIComponent(JSON_stringify(m, 0))

---------------------------------------------------------------------------
(* The state of one run of the wizard and of its environment.              *)

VARIABLES
  pc,             \* the place runInstallation has reached
  installMethod,  \* the answer of the first prompt, "" before it
  authMethod,     \* the answer of the authentication prompt, "" before it
  config,         \* the object `config`
  built,          \* the values generateGitHubAppManifest has returned so far
  fs,             \* the files of the working directory
  envWrites,      \* the writes of ENV_FILE_PATH made by this process
  server,         \* the express server: state "none", "listening" or "bind_error"
  portTaken,      \* another process holds the port the wizard will listen on
  promise,        \* the promise startLocalServer returned
  requests,       \* the HTTP requests received so far
  responses,      \* the response sent to each of them
  browser,        \* the URL handed to open(), empty before
  callback,       \* the locals `code` and `installationId` of runInstallation
  log             \* the messages printed so far

vars == <<pc, installMethod, authMethod, config, built, fs, envWrites, server,
          portTaken, promise, requests, responses, browser, callback, log>>

\* The answers the prompts may return (each prompt has a default or a
\* validator, so host, port and the keys are never empty).
Suffixes == {<<>>, <<"bot">>}

Hosts == {Localhost}

Ports == {<<"3000">>, <<"4000">>}

ClaudeKeys == {<<"sk-ant-REDACTED">>}

GitHubTokens == {<<"ghp_0123456789abcdef">>}

WebhookUrls == {Localhost \o <<":">> \o DEFAULT_PORT \o WebhookRoute}

\* What an earlier run may have left at ENV_FILE_PATH.
StaleEnv ==
  envContent(<< [key |-> "GITHUB_TOKEN", value |-> Str(<<"ghp_old">>)],
                [key |-> "STALE_KEY", value |-> Str(<<"stale">>)] >>)

\* The query values a request may carry.
Codes == {Undefined, Str(<<"abc123">>)}

InstallationIds == {Undefined, Str(<<"999">>), Str(<<"1000">>)}

\* The correlation values the registration service hands out.
ServiceCodes == {Str(<<"abc123">>)}

ServiceInstallationIds == {Str(<<"999">>)}

\* `via` tells a request the operator makes by hand ("direct") from the one
\* the registration service sends the browser to ("redirect").
Requests ==
  [path : {CallbackRoute}, code : Codes, installation_id : InstallationIds, via : {"direct"}]
  \cup [path : {WebhookRoute}, code : {Undefined}, installation_id : {Undefined},
         via : {"direct"}]

NoPromise == [state |-> "none", value |-> [code |-> Undefined, installationId |-> Undefined],
              settled |-> 0]

Init ==
  /\ pc = "chooseMethod"
  /\ installMethod = ""
  /\ authMethod = ""
  /\ config = <<>>
  /\ built = <<>>
  /\ fs \in {[p \in Paths |-> IF p = ENV_FILE_PATH THEN f ELSE NoFile] :
               f \in {NoFile, File(StaleEnv)}}
  /\ envWrites = 0
  /\ server = [state |-> "none", port |-> <<>>]
  /\ portTaken \in BOOLEAN
  /\ promise = NoPromise
  /\ requests = <<>>
  /\ responses = <<>>
  /\ browser = <<>>
  /\ callback = [code |-> Undefined, installationId |-> Undefined]
  /\ log = {}

---------------------------------------------------------------------------
(* The functions of install.js that act on the state.                      *)

\* Mutant: the lines are appended to the file (fs.appendFileSync).
saveEnvironmentVariables_append(cfg) ==
  /\ fs' = [fs EXCEPT ![ENV_FILE_PATH] =
               File((IF fs[ENV_FILE_PATH].content = <<>> THEN <<>>
                     ELSE fs[ENV_FILE_PATH].content \o <<"\n">>) \o envContent(cfg))]
  /\ envWrites' = envWrites + 1
  /\ log' = log \cup {"env_saved"}

saveEnvironmentVariables(cfg) ==
  /\ fs' = writeFileSync(fs, ENV_FILE_PATH, envContent(cfg))
  /\ envWrites' = envWrites + 1
  /\ log' = log \cup {"env_saved"}

saveManifest(m) ==
  /\ fs' = writeFileSync(fs, MANIFEST_FILE_PATH, JSON_stringify(m, 2))
  /\ log' = log \cup {"manifest_saved"}

\* Mutant: every call of resolve replaces the value.
resolve_lastWins(p, value) ==
  [state |-> "fulfilled", value |-> value, settled |-> p.settled + 1]

\* resolve(value) of a promise: only the first call settles it.
resolve(p, value) ==
  IF p.state = "pending"
  THEN [state |-> "fulfilled", value |-> value, settled |-> p.settled + 1]
  ELSE p

\* The page the callback handler sends.
confirmationPage(code, installation_id) ==
  [status |-> 200,
   body |-> <<"GitHub App Successfully Created!", "Installation ID:">>
            \o TemplateString(installation_id) \o <<"Code:">> \o TemplateString(code)]

\* express answers a route nobody serves.
notFoundPage(path) == [status |-> 404, body |-> <<"Cannot GET">> \o path]

manifest == built[Len(built)].manifest

webhookSecret == built[Len(built)].webhookSecret

\* startLocalServer(port): the promise is created, the route registered
\* and app.listen(port) binds the port, or fails when it is taken.
startLocalServer(port) ==
  /\ promise' = [NoPromise EXCEPT !.state = "pending"]
  /\ server' = [state |-> IF portTaken THEN "bind_error" ELSE "listening", port |-> port]
  /\ log' = IF portTaken THEN log ELSE log \cup {"server_started"}

---------------------------------------------------------------------------
(* runInstallation, one action per step.                                   *)

ChooseMethod(m) ==
  /\ pc = "chooseMethod"
  /\ installMethod' = m
  /\ pc' = CASE m = "interactive" -> "promptBasic"
              [] m = "manifest" -> "promptManifest"
              [] OTHER -> "writeDocker"
  /\ UNCHANGED <<authMethod, config, built, fs, envWrites, server, portTaken, promise,
                 requests, responses, browser, callback, log>>

PromptBasic(suffix, host, port, key) ==
  /\ pc = "promptBasic"
  /\ LET answers == << [key |-> "appNameSuffix", value |-> Str(suffix)],
                       [key |-> "host", value |-> Str(host)],
                       [key |-> "port", value |-> Str(port)],
                       [key |-> "CLAUDE_API_KEY", value |-> Str(key)] >>
     IN config' = Set(answers, "webhookUrl", getWebhookUrl(answers))
  /\ log' = log \cup {"github_authentication"}
  /\ pc' = "chooseAuth"
  /\ UNCHANGED <<installMethod, authMethod, built, fs, envWrites, server, portTaken,
                 promise, requests, responses, browser, callback>>

ChooseAuth(a) ==
  /\ pc = "chooseAuth"
  /\ authMethod' = a
  /\ pc' = IF a = "pat" THEN "promptToken" ELSE "generateManifest"
  /\ UNCHANGED <<installMethod, config, built, fs, envWrites, server, portTaken, promise,
                 requests, responses, browser, callback, log>>

PromptToken(token, secret) ==
  /\ pc = "promptToken"
  /\ config' = Set(Set(config, "GITHUB_TOKEN", Str(token)), "WEBHOOK_SECRET", Str(secret))
  /\ log' = log \cup {"token_validated"}
  /\ pc' = "saveEnv"
  /\ UNCHANGED <<installMethod, authMethod, built, fs, envWrites, server, portTaken,
                 promise, requests, responses, browser, callback>>

AppGenerateManifest(secret, nameHex) ==
  /\ pc = "generateManifest"
  /\ built' = Append(built, generateGitHubAppManifest(config, secret, nameHex))
  /\ pc' = "saveManifest"
  /\ UNCHANGED <<installMethod, authMethod, config, fs, envWrites, server, portTaken,
                 promise, requests, responses, browser, callback, log>>

AppSaveManifest ==
  /\ pc = "saveManifest"
  /\ saveManifest(manifest)
  /\ pc' = "setSecret"
  /\ UNCHANGED <<installMethod, authMethod, config, built, envWrites, server, portTaken,
                 promise, requests, responses, browser, callback>>

\* Mutant: the listener is not started before the browser is opened.
AppSetSecret_skipsServer ==
  /\ pc = "setSecret"
  /\ config' = Set(config, "WEBHOOK_SECRET", Str(webhookSecret))
  /\ pc' = "openBrowser"
  /\ UNCHANGED <<installMethod, authMethod, built, fs, envWrites, server, portTaken,
                 promise, requests, responses, browser, callback, log>>

AppSetSecret ==
  /\ pc = "setSecret"
  /\ config' = Set(config, "WEBHOOK_SECRET", Str(webhookSecret))
  /\ pc' = "startServer"
  /\ UNCHANGED <<installMethod, authMethod, built, fs, envWrites, server, portTaken,
                 promise, requests, responses, browser, callback, log>>

AppStartServer ==
  /\ pc = "startServer"
  /\ startLocalServer(TemplateString(Or(Get(config, "port"), Str(DEFAULT_PORT))))
  /\ pc' = "openBrowser"
  /\ UNCHANGED <<installMethod, authMethod, config, built, fs, envWrites, portTaken,
                 requests, responses, browser, callback>>

AppOpenBrowser ==
  /\ pc = "openBrowser"
  /\ browser' = githubAppUrl(manifest)
  /\ log' = log \cup {"opening_browser"}
  /\ pc' = "opening"
  /\ UNCHANGED <<installMethod, authMethod, config, built, fs, envWrites, server,
                 portTaken, promise, requests, responses, callback>>

\* await open(githubAppUrl) returns and the spinner starts.
OpenReturned ==
  /\ pc = "opening"
  /\ log' = log \cup {"spinner_start"}
  /\ pc' = "waiting"
  /\ UNCHANGED <<installMethod, authMethod, config, built, fs, envWrites, server,
                 portTaken, promise, requests, responses, browser, callback>>

\* Mutant: the wait gives up (a timeout) and goes on with what it has.
AwaitCallback_timeout ==
  /\ pc = "waiting"
  /\ callback' = promise.value
  /\ config' = Set(Set(Set(config, "GITHUB_APP_ID", ManualAppSettings),
                        "GITHUB_APP_INSTALLATION_ID", promise.value.installationId),
                    "GITHUB_PRIVATE_KEY", ManualPrivateKey)
  /\ log' = log \cup {"spinner_succeed", "installation_id_shown", "code_shown", "manual_steps"}
  /\ pc' = "saveEnv"
  /\ UNCHANGED <<installMethod, authMethod, built, fs, envWrites, server, portTaken,
                 promise, requests, responses, browser>>

\* Mutant: the installation identifier is left as a placeholder, as the
\* manifest branch does.
AwaitCallback_placeholder ==
  /\ pc = "waiting"
  /\ promise.state = "fulfilled"
  /\ callback' = promise.value
  /\ config' = Set(Set(Set(config, "GITHUB_APP_ID", ManualAppSettings),
                        "GITHUB_APP_INSTALLATION_ID", ManualAppSettings),
                    "GITHUB_PRIVATE_KEY", ManualPrivateKey)
  /\ log' = log \cup {"spinner_succeed", "installation_id_shown", "code_shown", "manual_steps"}
  /\ pc' = "saveEnv"
  /\ UNCHANGED <<installMethod, authMethod, built, fs, envWrites, server, portTaken,
                 promise, requests, responses, browser>>

\* await callbackServer returns; lines 280-298.
AwaitCallback ==
  /\ pc = "waiting"
  /\ promise.state = "fulfilled"
  /\ callback' = promise.value
  /\ config' = Set(Set(Set(config, "GITHUB_APP_ID", ManualAppSettings),
                        "GITHUB_APP_INSTALLATION_ID", promise.value.installationId),
                    "GITHUB_PRIVATE_KEY", ManualPrivateKey)
  /\ log' = log \cup {"spinner_succeed", "installation_id_shown", "code_shown", "manual_steps"}
  /\ pc' = "saveEnv"
  /\ UNCHANGED <<installMethod, authMethod, built, fs, envWrites, server, portTaken,
                 promise, requests, responses, browser>>

InteractiveSave ==
  /\ pc = "saveEnv"
  /\ saveEnvironmentVariables(config)
  /\ pc' = "writeGuide"
  /\ UNCHANGED <<installMethod, authMethod, config, built, server, portTaken, promise,
                 requests, responses, browser, callback>>

PromptManifest(suffix, appUrl, webhookUrl) ==
  /\ pc = "promptManifest"
  /\ config' = << [key |-> "appNameSuffix", value |-> Str(suffix)],
                  [key |-> "appUrl", value |-> Str(appUrl)],
                  [key |-> "webhookUrl", value |-> Str(webhookUrl)] >>
  /\ pc' = "manifestGenerate"
  /\ UNCHANGED <<installMethod, authMethod, built, fs, envWrites, server, portTaken,
                 promise, requests, responses, browser, callback, log>>

ManifestGenerate(secret, nameHex) ==
  /\ pc = "manifestGenerate"
  /\ built' = Append(built, generateGitHubAppManifest(config, secret, nameHex))
  /\ pc' = "manifestSaveManifest"
  /\ UNCHANGED <<installMethod, authMethod, config, fs, envWrites, server, portTaken,
                 promise, requests, responses, browser, callback, log>>

ManifestSaveManifest ==
  /\ pc = "manifestSaveManifest"
  /\ saveManifest(manifest)
  /\ pc' = "manifestFill"
  /\ UNCHANGED <<installMethod, authMethod, config, built, envWrites, server, portTaken,
                 promise, requests, responses, browser, callback>>

ManifestFill ==
  /\ pc = "manifestFill"
  /\ config' = Set(Set(Set(Set(Set(config,
                    "WEBHOOK_SECRET", Str(webhookSecret)),
                    "CLAUDE_API_KEY", ManualClaudeKey),
                    "GITHUB_APP_ID", ManualAppSettings),
                    "GITHUB_APP_INSTALLATION_ID", ManualAppSettings),
                    "GITHUB_PRIVATE_KEY", ManualPrivateKey)
  /\ pc' = "manifestSaveEnv"
  /\ UNCHANGED <<installMethod, authMethod, built, fs, envWrites, server, portTaken,
                 promise, requests, responses, browser, callback, log>>

ManifestSave ==
  /\ pc = "manifestSaveEnv"
  /\ saveEnvironmentVariables(config)
  /\ pc' = "manifestSteps"
  /\ UNCHANGED <<installMethod, authMethod, config, built, server, portTaken, promise,
                 requests, responses, browser, callback>>

ManifestSteps ==
  /\ pc = "manifestSteps"
  /\ log' = log \cup {"manifest_steps"}
  /\ pc' = "writeGuide"
  /\ UNCHANGED <<installMethod, authMethod, config, built, fs, envWrites, server,
                 portTaken, promise, requests, responses, browser, callback>>

\* Mutant: the docker branch saves the configuration too.
WriteDocker_savesEnv ==
  /\ pc = "writeDocker"
  /\ fs' = writeFileSync(
             writeFileSync(writeFileSync(fs, DOCKER_COMPOSE_PATH, <<"dockerComposeContent">>),
                           DOCKERFILE_PATH, <<"dockerfileContent">>),
             ENV_FILE_PATH, envContent(config))
  /\ envWrites' = envWrites + 1
  /\ log' = log \cup {"docker_files_created", "docker_steps", "env_saved"}
  /\ pc' = "writeGuide"
  /\ UNCHANGED <<installMethod, authMethod, config, built, server, portTaken,
                 promise, requests, responses, browser, callback>>

WriteDocker ==
  /\ pc = "writeDocker"
  /\ fs' = writeFileSync(writeFileSync(fs, DOCKER_COMPOSE_PATH, <<"dockerComposeContent">>),
                         DOCKERFILE_PATH, <<"dockerfileContent">>)
  /\ log' = log \cup {"docker_files_created", "docker_steps"}
  /\ pc' = "writeGuide"
  /\ UNCHANGED <<installMethod, authMethod, config, built, envWrites, server, portTaken,
                 promise, requests, responses, browser, callback>>

\* Lines 396-476: INSTALL.md and the closing banner.
WriteGuide ==
  /\ pc = "writeGuide"
  /\ fs' = writeFileSync(fs, README_PATH, <<"readmeContent">>)
  /\ log' = log \cup {"install_guide_created", "completed"}
  /\ pc' = "done"
  /\ UNCHANGED <<installMethod, authMethod, config, built, envWrites, server, portTaken,
                 promise, requests, responses, browser, callback>>

---------------------------------------------------------------------------
(* Reading back what was written.                                          *)

RECURSIVE Split(_, _)
\* The pieces of a text between the occurrences of the token sep.
Split(text, sep) ==
  IF \E i \in DOMAIN text : text[i] = sep
  THEN LET i == CHOOSE k \in DOMAIN text : text[k] = sep /\ \A j \in 1..(k - 1) : text[j] # sep
       IN <<SubSeq(text, 1, i - 1)>> \o Split(SubSeq(text, i + 1, Len(text)), sep)
  ELSE <<text>>

\* The lines of a configuration file; the empty file has none.
EnvLines(content) == IF content = <<>> THEN <<>> ELSE Split(content, "\n")

\* The values the file gives to a key: what follows KEY= on its lines.
EnvValues(content, k) ==
  LET lines == EnvLines(content)
  IN {SubSeq(lines[i], 3, Len(lines[i])) :
        i \in {j \in DOMAIN lines : Len(lines[j]) >= 2 /\ lines[j][1] = k /\ lines[j][2] = "="}}

EnvKeys(content) ==
  LET lines == EnvLines(content)
  IN {IF lines[i] = <<>> THEN "" ELSE lines[i][1] : i \in DOMAIN lines}

PercentDecode(tok) ==
  CASE tok = "%7B" -> "{"
    [] tok = "%7D" -> "}"
    [] tok = "%5B" -> "["
    [] tok = "%5D" -> "]"
    [] tok = "%22" -> "\""
    [] tok = "%3A" -> ":"
    [] tok = "%2C" -> ","
    [] tok = "%2F" -> "/"
    [] tok = "%20" -> " "
    [] tok = "%0A" -> "\n"
    [] tok = "%3F" -> "?"
    [] tok = "%3D" -> "="
    [] OTHER       -> tok

decodeURIComponent(text) == [i \in DOMAIN text |-> PercentDecode(text[i])]

\* The value of the query parameter `manifest` of a registration URL.
ManifestParam(url) ==
  LET i == CHOOSE k \in DOMAIN url : url[k] = "=" /\ \A j \in 1..(k - 1) : url[j] # "="
  IN decodeURIComponent(SubSeq(url, i + 1, Len(url)))

\* The string values a JSON text gives to the members named k.
JsonStringFields(text, k) ==
  LET n == Len(text)
      open(i) == IF text[i + 4] = " " THEN i + 5 ELSE i + 4
      close(i) == CHOOSE e \in (open(i) + 1)..n :
                    text[e] = "\"" /\ \A j \in (open(i) + 1)..(e - 1) : text[j] # "\""
  IN {SubSeq(text, open(i) + 1, close(i) - 1) :
        i \in {j \in 1..(n - 5) : /\ text[j + 1] = k /\ text[j] = "\"" /\ text[j + 2] = "\""
                                   /\ text[j + 3] = ":" /\ text[open(j)] = "\""}}

\* The origin (scheme, host and port) and the path of an absolute URL.
UrlPathStart(url) ==
  IF \E k \in 5..Len(url) : url[k] = "/"
  THEN CHOOSE k \in 5..Len(url) : url[k] = "/" /\ \A j \in 5..(k - 1) : url[j] # "/"
  ELSE Len(url) + 1

UrlOrigin(url) == SubSeq(url, 1, UrlPathStart(url) - 1)

UrlPath(url) ==
  IF UrlPathStart(url) > Len(url) THEN <<"/">> ELSE SubSeq(url, UrlPathStart(url), Len(url))

---------------------------------------------------------------------------
(* The listener.  A request is handled between two steps of the event      *)
(* loop, so only while runInstallation is suspended or has returned.       *)

AtAwait == pc \in {"opening", "waiting", "done"}

\* app.get('/github/callback', ...) and express's answer to any other path.
HandleRequest(req) ==
  /\ server.state = "listening"
  /\ AtAwait
  /\ Len(requests) < MaxRequests
  /\ requests' = Append(requests, req)
  /\ IF req.path = CallbackRoute
     THEN /\ responses' = Append(responses, confirmationPage(req.code, req.installation_id))
          /\ promise' = resolve(promise,
                                [code |-> req.code, installationId |-> req.installation_id])
     ELSE /\ responses' = Append(responses, notFoundPage(req.path))
          /\ promise' = promise
  /\ UNCHANGED <<pc, installMethod, authMethod, config, built, fs, envWrites, server,
                 portTaken, browser, callback, log>>

\* The registration service, once the operator has created the app from the
\* URL that was opened, sends the browser to the redirect_url of the manifest
\* it was given, with the correlation values in the query.  It does so once,
\* and the request is handled when that URL leads to this listener.
ServiceRedirect(code, installation_id) ==
  /\ server.state = "listening"
  /\ AtAwait
  /\ Len(requests) < MaxRequests
  /\ browser # <<>>
  /\ \A i \in DOMAIN requests : requests[i].via # "redirect"
  /\ JsonStringFields(ManifestParam(browser), "redirect_url") # {}
  /\ LET target == CHOOSE u \in JsonStringFields(ManifestParam(browser), "redirect_url") : TRUE
     IN /\ UrlOrigin(target) = Localhost \o <<":">> \o server.port
        /\ HandleRequest([path |-> UrlPath(target), code |-> code,
                          installation_id |-> installation_id, via |-> "redirect"])

\* The 'error' event of a server that could not bind has no listener: it is
\* thrown out of the event loop and ends the process while runInstallation
\* is suspended.
BindFailure ==
  /\ server.state = "bind_error"
  /\ pc \in {"opening", "waiting"}
  /\ pc' = "crashed"
  /\ log' = log \cup {"uncaught_error"}
  /\ UNCHANGED <<installMethod, authMethod, config, built, fs, envWrites, server,
                 portTaken, promise, requests, responses, browser, callback>>

Next ==
  \/ \E m \in {"interactive", "manifest", "docker"} : ChooseMethod(m)
  \/ \E suffix \in Suffixes, host \in Hosts, port \in Ports, key \in ClaudeKeys :
        PromptBasic(suffix, host, port, key)
  \/ \E a \in {"app", "pat"} : ChooseAuth(a)
  \/ \E token \in GitHubTokens, secret \in generateRandomSecret(16) :
        PromptToken(token, secret)
  \/ \E secret \in generateRandomSecret(16), nameHex \in randomHex(4) :
        AppGenerateManifest(secret, nameHex)
  \/ AppSaveManifest
  \/ AppSetSecret
  \/ AppStartServer
  \/ AppOpenBrowser
  \/ OpenReturned
  \/ AwaitCallback
  \/ InteractiveSave
  \/ \E suffix \in Suffixes, webhookUrl \in WebhookUrls :
        PromptManifest(suffix, DefaultAppUrl, webhookUrl)
  \/ \E secret \in generateRandomSecret(16), nameHex \in randomHex(4) :
        ManifestGenerate(secret, nameHex)
  \/ ManifestSaveManifest
  \/ ManifestFill
  \/ ManifestSave
  \/ ManifestSteps
  \/ WriteDocker
  \/ WriteGuide
  \/ \E req \in Requests : HandleRequest(req)
  \/ \E code \in ServiceCodes, installation_id \in ServiceInstallationIds :
        ServiceRedirect(code, installation_id)
  \/ BindFailure

Spec == Init /\ [][Next]_vars

---------------------------------------------------------------------------
(* saveEnvironmentVariables on its own: any sequence of calls against the  *)
(* same path, each with a config built by assignments.                     *)

WriterEntries ==
  [key : {"A", "B", "C"}, value : {Str(<<"1">>), Str(<<"2">>), Str(<<"3">>)}]

WriterConfigs ==
  {<<>>} \cup {<<e>> : e \in WriterEntries}
  \cup {Set(<<e>>, f.key, f.value) : e \in WriterEntries, f \in WriterEntries}

WriterInit ==
  /\ pc = "writer"
  /\ installMethod = ""
  /\ authMethod = ""
  /\ config = <<>>
  /\ built = <<>>
  /\ fs \in {[p \in Paths |-> IF p = ENV_FILE_PATH THEN f ELSE NoFile] :
               f \in {NoFile, File(StaleEnv)}}
  /\ envWrites = 0
  /\ server = [state |-> "none", port |-> <<>>]
  /\ portTaken = FALSE
  /\ promise = NoPromise
  /\ requests = <<>>
  /\ responses = <<>>
  /\ browser = <<>>
  /\ callback = [code |-> Undefined, installationId |-> Undefined]
  /\ log = {}

WriterSave(cfg) ==
  /\ pc = "writer"
  /\ envWrites < MaxWrites
  /\ config' = cfg
  /\ saveEnvironmentVariables(cfg)
  /\ UNCHANGED <<pc, installMethod, authMethod, built, server, portTaken, promise,
                 requests, responses, browser, callback>>

WriterNext == \E cfg \in WriterConfigs : WriterSave(cfg)

WriterSpec == WriterInit /\ [][WriterNext]_vars

---------------------------------------------------------------------------
(* The state read back by the claims.                                      *)

envFile == fs[ENV_FILE_PATH]

manifestFile == fs[MANIFEST_FILE_PATH]

\* The indexes of the requests made to the callback route.
CallbackRequests == {i \in DOMAIN requests : requests[i].path = CallbackRoute}

FirstCallback ==
  requests[CHOOSE i \in CallbackRequests : \A j \in CallbackRequests : i <= j]

BuildsManifest == installMethod = "manifest" \/ authMethod = "app"

AppPath == installMethod = "interactive" /\ authMethod = "app"

---------------------------------------------------------------------------
(* The claims.                                                             *)

\* C1: in a run that builds a manifest, generateGitHubAppManifest is called
\* exactly once, and once the configuration file is written its
\* WEBHOOK_SECRET line holds the hook_attributes.secret read back from the
\* persisted manifest file and from the registration URL that was opened;
\* this stays so in every later state of the run.
C1_SecretNeverDiverges ==
  /\ Len(built) <= 1
  /\ (BuildsManifest /\ pc = "done") => Len(built) = 1
  /\ (BuildsManifest /\ envWrites >= 1) =>
        /\ manifestFile.exists
        /\ EnvValues(envFile.content, "WEBHOOK_SECRET")
             = JsonStringFields(manifestFile.content, "secret")
        /\ JsonStringFields(manifestFile.content, "secret") = {manifest.hook_attributes.secret}
        /\ AppPath => JsonStringFields(ManifestParam(browser), "secret")
                        = EnvValues(envFile.content, "WEBHOOK_SECRET")

C1_Witness ==
  /\ AppPath /\ pc = "done" /\ envWrites = 1 /\ Len(built) = 1
  /\ EnvValues(envFile.content, "WEBHOOK_SECRET") = {<<"c01dfeed9a8b7c6d5e4f30211203a4b5">>}
  /\ JsonStringFields(ManifestParam(browser), "secret") = {<<"c01dfeed9a8b7c6d5e4f30211203a4b5">>}

\* C2: however many requests reach the callback route, the promise of
\* startLocalServer is settled exactly once, with the query values of the
\* first of them, and the pair runInstallation records after the wait is
\* that first pair; a later request changes neither.
C2_FirstCallbackWins ==
  /\ promise.settled <= 1
  /\ CallbackRequests # {} =>
        /\ promise.state = "fulfilled"
        /\ promise.settled = 1
        /\ promise.value = [code |-> FirstCallback.code,
                            installationId |-> FirstCallback.installation_id]
  /\ (AppPath /\ pc \in {"saveEnv", "writeGuide", "done"}) =>
        callback = [code |-> FirstCallback.code,
                    installationId |-> FirstCallback.installation_id]

C2_Witness ==
  /\ pc = "done"
  /\ Cardinality(CallbackRequests) >= 2
  /\ \E i \in CallbackRequests :
        requests[i].installation_id # FirstCallback.installation_id
  /\ callback.installationId = FirstCallback.installation_id

\* C3: once one callback request has been handled, a second request to the
\* callback route is not processed: no confirmation page is rendered for
\* any callback request but the first.
C3_SecondRequestNotProcessed ==
  \A i \in CallbackRequests :
    (\E j \in CallbackRequests : j < i) => responses[i].status # 200

\* C4: when the App-registration run reports completion, the listener has
\* been stopped and the port is no longer bound.
C4_PortReleasedAtCompletion ==
  (AppPath /\ pc = "done") => server.state # "listening"

\* C5: in the App-registration path, as long as no callback request has been
\* handled the run is at or before the wait (or has aborted on a bind
\* failure): GITHUB_APP_INSTALLATION_ID is not set and the configuration
\* file is not written; no step takes the run past the wait without one.
C5_NoProgressBeforeCallback ==
  (AppPath /\ CallbackRequests = {}) =>
    /\ pc \in {"generateManifest", "saveManifest", "setSecret", "startServer",
                "openBrowser", "opening", "waiting", "crashed"}
    /\ envWrites = 0
    /\ "GITHUB_APP_INSTALLATION_ID" \notin Keys(config)
    /\ "completed" \notin log

C5_Witness ==
  /\ AppPath /\ pc = "waiting" /\ server.state = "listening"
  /\ promise.state = "pending"
  /\ Len(requests) >= 1 /\ CallbackRequests = {}
  /\ envWrites = 0

\* C6 (as stated): the file written after the wait records both the
\* installation identifier and the authorization code of the callback.
C6_BothValuesRecorded ==
  (AppPath /\ envWrites >= 1) =>
    /\ EnvValues(envFile.content, "GITHUB_APP_INSTALLATION_ID")
         = {TemplateString(callback.installationId)}
    /\ \E i \in DOMAIN config :
         config[i].key # "GITHUB_APP_INSTALLATION_ID" /\ config[i].value = callback.code

\* C6 (amended): the file written after the wait holds, on its
\* GITHUB_APP_INSTALLATION_ID line, the installation_id of the first
\* callback (the text "undefined" when it carried none); the authorization
\* code is kept in a local and printed, and no entry of the file holds it.
C6_InstallationIdRecorded ==
  (AppPath /\ envWrites >= 1) =>
    /\ EnvValues(envFile.content, "GITHUB_APP_INSTALLATION_ID")
         = {TemplateString(FirstCallback.installation_id)}
    /\ Get(config, "GITHUB_APP_INSTALLATION_ID") = FirstCallback.installation_id
    /\ callback.code = FirstCallback.code
    /\ "code_shown" \in log
    /\ FirstCallback.code.t = "string" =>
         LET lines == EnvLines(envFile.content)
         IN \A i \in DOMAIN lines :
              SubSeq(lines[i], 3, Len(lines[i])) # FirstCallback.code.v

C6_Witness ==
  /\ AppPath /\ pc = "done" /\ envWrites = 1
  /\ FirstCallback.code = Str(<<"abc123">>)
  /\ EnvValues(envFile.content, "GITHUB_APP_INSTALLATION_ID") = {<<"999">>}

\* C7: when the callback lacked code or installation_id, the run records a
\* warning and does not report the ceremony as successfully completed.
C7_IncompletenessSurfaced ==
  ( /\ AppPath
    /\ pc \in {"saveEnv", "writeGuide", "done"}
    /\ (callback.code = Undefined \/ callback.installationId = Undefined) ) =>
    /\ "incomplete_warning" \in log
    /\ "spinner_succeed" \notin log

\* C8: after any sequence of saveEnvironmentVariables calls, the lines of
\* the file are exactly the KEY=value lines of the last config written, in
\* its insertion order; nothing of an earlier write or of an earlier file
\* remains.
C8_LastWriteOnly ==
  envWrites >= 1 =>
    /\ envFile.exists
    /\ EnvLines(envFile.content)
         = [i \in DOMAIN config |-> <<config[i].key, "=">> \o TemplateString(config[i].value)]
    /\ EnvKeys(envFile.content) = Keys(config)

C8_Witness ==
  /\ pc = "writer" /\ envWrites >= 2
  /\ EnvLines(envFile.content) = << <<"A", "=", "2">>, <<"B", "=", "3">> >>

\* C9 (as stated): every run that reaches completion has written the
\* configuration file exactly once, whichever method was chosen.
C9_WrittenOnceEveryMethod == pc = "done" => envWrites = 1

\* C9 (amended): the configuration file is never written twice; a run
\* that reaches completion has written it exactly once, by the call that
\* ends the interactive or the manifest branch, and not at all when the
\* docker method was chosen.
C9_WrittenOnceUnlessDocker ==
  /\ envWrites <= 1
  /\ pc = "done" => envWrites = (IF installMethod = "docker" THEN 0 ELSE 1)
  /\ envWrites = 1 => /\ installMethod \in {"interactive", "manifest"}
                       /\ pc \in {"writeGuide", "manifestSteps", "done"}
                       /\ "env_saved" \in log
  /\ installMethod = "docker" => envWrites = 0

C9_Witness ==
  /\ pc = "done" /\ installMethod = "interactive" /\ authMethod = "pat"
  /\ envWrites = 1 /\ envFile.exists

\* The keys the configuration file is documented to hold.
RecognizedKeys ==
  {"GITHUB_APP_ID", "GITHUB_APP_INSTALLATION_ID", "GITHUB_PRIVATE_KEY", "GITHUB_TOKEN",
   "WEBHOOK_SECRET", "CLAUDE_API_KEY", "PORT"}

\* C10: every entry written to the configuration file has an upper-case,
\* environment-variable-style key and a defined string value.
C10_EnvStyleEntries ==
  (envWrites >= 1) =>
    /\ EnvKeys(envFile.content) \subseteq RecognizedKeys
    /\ \A i \in DOMAIN config : config[i].value.t = "string"

\* The request the registration service sent the browser to, if any.
RedirectRequests == {i \in DOMAIN requests : requests[i].via = "redirect"}

\* C11: in the App-registration path the redirect_url of the manifest
\* designates the route the listener serves: when the service has sent the
\* browser to it with code and installation_id, the listener has answered
\* with the confirmation page and the wait is resolved.
C11_RedirectResolvesWait ==
  AppPath =>
    \A i \in RedirectRequests :
      /\ requests[i].path = CallbackRoute
      /\ responses[i].status = 200
      /\ promise.state = "fulfilled"

\* C12: in the App-registration path, whenever the registration URL has
\* been handed to the browser, the manifest it carries has been persisted
\* and startLocalServer has been called on the configured port: the promise
\* exists and the server is listening, or, the port being taken, has failed
\* to bind.
C12_ListenerStartedBeforeOpen ==
  /\ browser # <<>> =>
        /\ AppPath
        /\ Len(built) = 1
        /\ manifestFile.exists
        /\ promise.state # "none"
        /\ server.state \in {"listening", "bind_error"}
        /\ server.state = "listening" <=> ~portTaken
        /\ server.port = TemplateString(Or(Get(config, "port"), Str(DEFAULT_PORT)))
  /\ (AppPath /\ server.state # "none") => manifestFile.exists

C12_Witness ==
  /\ AppPath /\ pc = "opening" /\ browser # <<>>
  /\ manifestFile.exists /\ server.state = "listening" /\ promise.state = "pending"
  /\ requests = <<>>

====
